---- MODULE Spec2Model ----
(***************************************************************************)
(* Model of the service generator of the data-service generator:           *)
(* packages/amplication-data-service-generator/src/server/resource/        *)
(* service/create-service.ts.                                              *)
(*                                                                         *)
(* Syntax trees are records carrying a "type" field, as Babel/ast-types    *)
(* nodes do.  Identifiers are strings joined with \o, paths are records    *)
(* of directory segments, a file name and an extension.                    *)
(***************************************************************************)
EXTENDS Integers, Sequences, FiniteSets, TLC

VARIABLES
    pc,             \* position of createServiceModules and of the function it awaits
    entity,         \* the Entity argument together with entityName and entityType
    passwordFields, \* entity.fields.filter(isPasswordField)
    mapping,        \* the interpolation mapping built by createServiceModules
    file,           \* the syntax tree createServiceModule / createServiceBaseModule works on
    templates,      \* per function, the template tree readFile returned to it
    steps,          \* per function, the statements it has executed so far, in order
    modules,        \* the Module[] being returned: <<service module, base module>>
    generated,      \* identifiers produced so far, over all entities of a generation run
    evalArgs,       \* an update-arguments object the generated UPDATE_ARGS_MAPPING runs on
    evalOut         \* the outcome of evaluating the UPDATE_ARGS_MAPPING overrides on evalArgs

vars == <<pc, entity, passwordFields, mapping, file, templates, steps, modules,
          generated, evalArgs, evalOut>>

(***************************************************************************)
(* Bounds of the model.                                                    *)
(***************************************************************************)
MaxFields == 2
MaxMembers == 2
MaxEntities == 2

(***************************************************************************)
(* Sequence helpers.                                                       *)
(***************************************************************************)
Range(s) == {s[i] : i \in DOMAIN s}

RECURSIVE SelectIdx(_, _, _)
SelectIdx(s, keep, i) ==
    IF i > Len(s) THEN <<>>
    ELSE (IF i \in keep THEN <<s[i]>> ELSE <<>>) \o SelectIdx(s, keep, i + 1)

\* Array.prototype.filter: the elements satisfying Test, in their order.
Filter(s, Test(_)) == SelectIdx(s, {i \in DOMAIN s : Test(s[i])}, 1)

\* Array.prototype.map.
Map(s, F(_)) == [i \in DOMAIN s |-> F(s[i])]

(***************************************************************************)
(* ast-types builders and the tagged-template helpers of util/ast.         *)
(***************************************************************************)
Identifier(name) == [type |-> "Identifier", name |-> name]
ThisExpression == [type |-> "ThisExpression"]
Super == [type |-> "Super"]
BlockStatement == [type |-> "BlockStatement"]
MemberExpression(object, property) ==
    [type |-> "MemberExpression", object |-> object, property |-> property]
CallExpression(callee, arguments) ==
    [type |-> "CallExpression", callee |-> callee, arguments |-> arguments]
AwaitExpression(argument) == [type |-> "AwaitExpression", argument |-> argument]
LogicalExpression(operator, left, right) ==
    [type |-> "LogicalExpression", operator |-> operator, left |-> left, right |-> right]
ArrowFunctionExpression(params, body) ==
    [type |-> "ArrowFunctionExpression", params |-> params, body |-> body]
ObjectExpression(properties) == [type |-> "ObjectExpression", properties |-> properties]
ObjectProperty(key, value) == [type |-> "ObjectProperty", key |-> key, value |-> value]
SpreadProperty(argument) == [type |-> "SpreadProperty", argument |-> argument]

(***************************************************************************)
(* Module constants of create-service.ts.                                  *)
(***************************************************************************)
SRC_DIRECTORY == "src"
ARGS_ID == Identifier("args")
DATA_ID == Identifier("data")
PASSWORD_SERVICE_ID == Identifier("PasswordService")
PASSWORD_SERVICE_MEMBER_ID == Identifier("passwordService")
PASSWORD_SERVICE_MODULE_PATH ==
    [dir |-> <<SRC_DIRECTORY, "auth">>, name |-> "password.service", ext |-> "ts"]
HASH_MEMBER_EXPRESSION ==
    MemberExpression(MemberExpression(ThisExpression, PASSWORD_SERVICE_MEMBER_ID),
                     Identifier("hash"))
TRANSFORM_STRING_FIELD_UPDATE_INPUT_ID == Identifier("transformStringFieldUpdateInput")
PRISMA_UTIL_MODULE_PATH ==
    [dir |-> <<SRC_DIRECTORY>>, name |-> "prisma.util", ext |-> "ts"]
PASSWORD_FIELD_ASYNC_METHODS_Create == {"create"}
PASSWORD_FIELD_ASYNC_METHODS == {"create", "update"}

(***************************************************************************)
(* Identifier naming.                                                      *)
(***************************************************************************)
createServiceId(entityType) == Identifier(entityType \o "Service")
createServiceBaseId(entityType) == Identifier(entityType \o "ServiceBase")
FindManyArgsId(entityType) == Identifier("FindMany" \o entityType \o "Args")
FindOneArgsId(entityType) == Identifier("FindOne" \o entityType \o "Args")
CreateArgsId(entityType) == Identifier(entityType \o "CreateArgs")
UpdateArgsId_SameAsCreate(entityType) == Identifier(entityType \o "CreateArgs")
UpdateArgsId(entityType) == Identifier(entityType \o "UpdateArgs")
DeleteArgsId(entityType) == Identifier(entityType \o "DeleteArgs")

\* the seven derived names of an entity type, by the mapping key they are stored under
DerivedName(entityType, kind) ==
    CASE kind = "SERVICE" -> createServiceId(entityType)
      [] kind = "SERVICE_BASE" -> createServiceBaseId(entityType)
      [] kind = "FIND_MANY_ARGS" -> FindManyArgsId(entityType)
      [] kind = "FIND_ONE_ARGS" -> FindOneArgsId(entityType)
      [] kind = "CREATE_ARGS" -> CreateArgsId(entityType)
      [] kind = "UPDATE_ARGS" -> UpdateArgsId(entityType)
      [] kind = "DELETE_ARGS" -> DeleteArgsId(entityType)

(***************************************************************************)
(* Mutation mapping builder.                                               *)
(***************************************************************************)
isPasswordField(field) == field.dataType = "Password"

\* `${ARGS_ID}.${DATA_ID}.${fieldId}`
ArgsDataField(fieldId) ==
    MemberExpression(MemberExpression(ARGS_ID, DATA_ID), fieldId)

\* the object property createServiceModules builds per password field for create
CreateOverride(field) ==
    LET fieldId == Identifier(field.name)
    IN  ObjectProperty(fieldId,
            AwaitExpression(CallExpression(HASH_MEMBER_EXPRESSION,
                                           <<ArgsDataField(fieldId)>>)))

\* the transform invocation of the update override
UpdateTransformCall(fieldId) ==
    AwaitExpression(
        CallExpression(TRANSFORM_STRING_FIELD_UPDATE_INPUT_ID,
            <<ArgsDataField(fieldId),
              ArrowFunctionExpression(<<Identifier("password")>>,
                  CallExpression(HASH_MEMBER_EXPRESSION, <<Identifier("password")>>))>>))

UpdateOverride_Unguarded(field) ==
    LET fieldId == Identifier(field.name)
    IN  ObjectProperty(fieldId, UpdateTransformCall(fieldId))

\* the object property createServiceModules builds per password field for update
UpdateOverride(field) ==
    LET fieldId == Identifier(field.name)
        valueMemberExpression == ArgsDataField(fieldId)
    IN  ObjectProperty(fieldId,
            LogicalExpression("&&", valueMemberExpression, UpdateTransformCall(fieldId)))

createMutationDataMapping_OverridesFirst(mappings) ==
    IF Len(mappings) = 0 THEN ARGS_ID
    ELSE ObjectExpression(<<
            SpreadProperty(ARGS_ID),
            ObjectProperty(DATA_ID,
                ObjectExpression(mappings
                                 \o <<SpreadProperty(MemberExpression(ARGS_ID, DATA_ID))>>))
         >>)

createMutationDataMapping(mappings) ==
    IF Len(mappings) = 0 THEN ARGS_ID
    ELSE ObjectExpression(<<
            SpreadProperty(ARGS_ID),
            ObjectProperty(DATA_ID,
                ObjectExpression(<<SpreadProperty(MemberExpression(ARGS_ID, DATA_ID))>>
                                 \o mappings))
         >>)

\* the mapping object literal of createServiceModules
BuildMapping(entityName, entityType, fields) ==
    [SERVICE |-> createServiceId(entityType),
     SERVICE_BASE |-> createServiceBaseId(entityType),
     ENTITY |-> Identifier(entityType),
     FIND_MANY_ARGS |-> FindManyArgsId(entityType),
     FIND_ONE_ARGS |-> FindOneArgsId(entityType),
     CREATE_ARGS |-> CreateArgsId(entityType),
     UPDATE_ARGS |-> UpdateArgsId(entityType),
     DELETE_ARGS |-> DeleteArgsId(entityType),
     DELEGATE |-> Identifier(entityName),
     CREATE_ARGS_MAPPING |-> createMutationDataMapping(Map(fields, CreateOverride)),
     UPDATE_ARGS_MAPPING |-> createMutationDataMapping(Map(fields, UpdateOverride))]

(***************************************************************************)
(* Paths and import declarations (util/module, util/ast).                  *)
(***************************************************************************)
RECURSIVE CommonPrefixLen(_, _)
CommonPrefixLen(a, b) ==
    IF a # <<>> /\ b # <<>> /\ Head(a) = Head(b)
    THEN 1 + CommonPrefixLen(Tail(a), Tail(b))
    ELSE 0

\* the module path from the directory of `from` to `to`, without extension,
\* starting with "." or ".."
relativeImportPath(from, to) ==
    LET k == CommonPrefixLen(from.dir, to.dir)
        ups == Len(from.dir) - k
        down == SubSeq(to.dir, k + 1, Len(to.dir)) \o <<to.name>>
    IN  IF ups = 0 THEN <<".">> \o down
        ELSE [i \in 1..ups |-> ".."] \o down

importNames(ids, source) ==
    [type |-> "ImportDeclaration",
     specifiers |-> [i \in DOMAIN ids |-> ids[i].name],
     source |-> source]

ImportedNames(f) == UNION {Range(f.imports[i].specifiers) : i \in DOMAIN f.imports}

\* appends the declarations whose symbols the file does not import yet
RECURSIVE addImports(_, _)
addImports(f, imports) ==
    IF imports = <<>> THEN f
    ELSE LET imp == Head(imports)
             fresh == Range(imp.specifiers) \ ImportedNames(f) # {}
         IN  addImports(IF fresh THEN [f EXCEPT !.imports = Append(@, imp)] ELSE f,
                        Tail(imports))

ServiceModulePath(entityName) ==
    [dir |-> <<SRC_DIRECTORY, entityName>>, name |-> entityName \o ".service", ext |-> "ts"]
ServiceBaseModulePath(entityName) ==
    [dir |-> <<SRC_DIRECTORY, entityName, "base">>,
     name |-> entityName \o ".service.base", ext |-> "ts"]

(***************************************************************************)
(* The two templates: service.template.ts and service.base.template.ts.    *)
(* A template is a file holding imports, scaffold-only constructs and the  *)
(* target class, whose identifier is the SERVICE / SERVICE_BASE            *)
(* placeholder.  Every class has a constructor taking prisma; the other    *)
(* members vary over a small pool.  The mapping slots CREATE_ARGS_MAPPING  *)
(* and UPDATE_ARGS_MAPPING stand in the create and update methods, and     *)
(* UPDATE_ARGS_MAPPING in the base template only.                          *)
(***************************************************************************)
ScaffoldKinds == {"TSClassDeclare", "TSIgnoreComment", "ESLintComment",
                  "TSVariableDeclare", "TSInterfaceDeclare"}

Param(name, typeName, accessibility) ==
    [type |-> "TSParameterProperty", name |-> name, typeName |-> typeName,
     accessibility |-> accessibility]

ClassMember(type, keyType, key, kind, async, params, body) ==
    [type |-> type, keyType |-> keyType, key |-> key, kind |-> kind,
     async |-> async, params |-> params, body |-> body]

Method(key, async, body) ==
    ClassMember("ClassMethod", "Identifier", key, "method", async,
                <<Param("args", "any", "none")>>, body)

Constructor(body) ==
    ClassMember("ClassMethod", "Identifier", "constructor", "constructor", FALSE,
                <<Param("prisma", "PrismaService", "protected")>>, body)

\* this.prisma.DELEGATE.<method>(<argument>)
DelegateCall(method, argument) ==
    CallExpression(
        MemberExpression(
            MemberExpression(MemberExpression(ThisExpression, Identifier("prisma")),
                             Identifier("DELEGATE")),
            Identifier(method)),
        <<argument>>)

\* super.<method>(args)
SuperCall(method) ==
    CallExpression(MemberExpression(Super, Identifier(method)), <<ARGS_ID>>)

ServiceMemberPool ==
    << Method("create", FALSE, DelegateCall("create", Identifier("CREATE_ARGS_MAPPING"))),
       ClassMember("ClassProperty", "Identifier", "update", "property", FALSE, <<>>,
                   Identifier("UPDATE_ARGS")),
       ClassMember("ClassMethod", "StringLiteral", "create", "method", FALSE,
                   <<Param("args", "any", "none")>>, SuperCall("create")) >>

ServiceBaseMemberPool ==
    << Method("findMany", FALSE, DelegateCall("findMany", ARGS_ID)),
       Method("create", FALSE, DelegateCall("create", Identifier("CREATE_ARGS_MAPPING"))),
       Method("update", FALSE, DelegateCall("update", Identifier("UPDATE_ARGS_MAPPING"))),
       Method("delete", TRUE, DelegateCall("delete", ARGS_ID)) >>

TemplateImports ==
    << importNames(<<Identifier("PrismaService")>>, <<"nestjs-prisma">>) >>

\* the ways to keep at most MaxMembers members of a pool, in the pool's order
MemberChoices(pool) ==
    {keep \in SUBSET (1..Len(pool)) : Cardinality(keep) <= MaxMembers}

ServiceTemplate(keep) ==
    [type |-> "File",
     imports |-> TemplateImports,
     scaffold |-> ScaffoldKinds,
     class |-> [id |-> Identifier("SERVICE"),
                superClass |-> Identifier("SERVICE_BASE"),
                body |-> <<Constructor(CallExpression(Super, <<Identifier("prisma")>>))>>
                         \o SelectIdx(ServiceMemberPool, keep, 1)]]

ServiceBaseTemplate(keep) ==
    [type |-> "File",
     imports |-> TemplateImports,
     scaffold |-> ScaffoldKinds,
     class |-> [id |-> Identifier("SERVICE_BASE"),
                superClass |-> [type |-> "None"],
                body |-> <<Constructor(BlockStatement)>>
                         \o SelectIdx(ServiceBaseMemberPool, keep, 1)]]

(***************************************************************************)
(* util/ast: interpolation, scaffold removal, class lookup.                *)
(***************************************************************************)
\* replaces every identifier that is a key of the mapping by the mapped node
RECURSIVE interpolateNode(_, _)
interpolateNode(node, m) ==
    CASE node.type = "Identifier" ->
            IF node.name \in DOMAIN m THEN m[node.name] ELSE node
      [] node.type = "MemberExpression" ->
            [node EXCEPT !.object = interpolateNode(@, m),
                         !.property = interpolateNode(@, m)]
      [] node.type = "CallExpression" ->
            [node EXCEPT !.callee = interpolateNode(@, m),
                         !.arguments = [i \in DOMAIN @ |-> interpolateNode(@[i], m)]]
      [] node.type = "AwaitExpression" ->
            [node EXCEPT !.argument = interpolateNode(@, m)]
      [] node.type = "LogicalExpression" ->
            [node EXCEPT !.left = interpolateNode(@, m), !.right = interpolateNode(@, m)]
      [] OTHER -> node

interpolate(f, m) ==
    [f EXCEPT !.class.id = interpolateNode(@, m),
              !.class.superClass = interpolateNode(@, m),
              !.class.body = [i \in DOMAIN @ |->
                                [@[i] EXCEPT !.body = interpolateNode(@, m)]]]

removeTSClassDeclares(f) == [f EXCEPT !.scaffold = @ \ {"TSClassDeclare"}]
removeTSIgnoreComments(f) == [f EXCEPT !.scaffold = @ \ {"TSIgnoreComment"}]
removeESLintComments(f) == [f EXCEPT !.scaffold = @ \ {"ESLintComment"}]
removeTSVariableDeclares(f) == [f EXCEPT !.scaffold = @ \ {"TSVariableDeclare"}]
removeTSInterfaceDeclares(f) == [f EXCEPT !.scaffold = @ \ {"TSInterfaceDeclare"}]

\* whether the file's class declaration carries the given identifier
getClassDeclarationById(f, id) == f.class.id = id

ConstructorIndex(f) ==
    CHOOSE i \in DOMAIN f.class.body : f.class.body[i].kind = "constructor"

\* util/nestjs-code-generation: a constructor parameter property of the given type
addInjectableDependency(f, name, typeId, accessibility) ==
    [f EXCEPT !.class.body[ConstructorIndex(f)].params =
                  Append(@, Param(name, typeId.name, accessibility))]

\* appends the identifier to the arguments of the constructor's super(...) call
addIdentifierToConstructorSuperCall(f, id) ==
    [f EXCEPT !.class.body[ConstructorIndex(f)].body.arguments = Append(@, id)]

(***************************************************************************)
(* The loop over classDeclaration.body.body of both module functions.      *)
(***************************************************************************)
IsAsyncTarget_AnyMember(member) ==
    member.key \in PASSWORD_FIELD_ASYNC_METHODS

\* namedTypes.ClassMethod.check(member) && namedTypes.Identifier.check(member.key)
\*   && PASSWORD_FIELD_ASYNC_METHODS.has(member.key.name)
IsAsyncTarget(member) ==
    /\ member.type = "ClassMethod"
    /\ member.keyType = "Identifier"
    /\ member.key \in PASSWORD_FIELD_ASYNC_METHODS

MarkAsyncMethods_FirstOnly(f) ==
    LET targets == {i \in DOMAIN f.class.body : IsAsyncTarget(f.class.body[i])}
    IN  [f EXCEPT !.class.body = [i \in DOMAIN @ |->
            IF i \in targets /\ \A j \in targets : i <= j
            THEN [@[i] EXCEPT !.async = TRUE] ELSE @[i]]]

MarkAsyncMethods(f) ==
    [f EXCEPT !.class.body = [i \in DOMAIN @ |->
        IF IsAsyncTarget(@[i]) THEN [@[i] EXCEPT !.async = TRUE] ELSE @[i]]]

(***************************************************************************)
(* The bodies of createServiceModule and createServiceBaseModule, as the   *)
(* statements they execute in order.  A guarded statement stands inside    *)
(* the `if (passwordFields.length)` block.                                 *)
(***************************************************************************)
Stmt(op, arg) == [op |-> op, arg |-> arg, guarded |-> FALSE]
Guarded(op, arg) == [op |-> op, arg |-> arg, guarded |-> TRUE]

ServiceProgram_StripBeforeMutators ==
    << Stmt("readFile", "service.template.ts"),
       Stmt("interpolate", "mapping"),
       Stmt("removeTSClassDeclares", ""),
       Stmt("addImports", "serviceBaseId"),
       Stmt("removeTSIgnoreComments", ""),
       Stmt("if", "passwordFields.length"),
       Guarded("getClassDeclarationById", "serviceId"),
       Guarded("addInjectableDependency", "passwordService"),
       Guarded("addIdentifierToConstructorSuperCall", "passwordService"),
       Guarded("markAsync", "PASSWORD_FIELD_ASYNC_METHODS"),
       Guarded("addImports", "PASSWORD_SERVICE_ID"),
       Stmt("removeESLintComments", ""),
       Stmt("removeTSVariableDeclares", ""),
       Stmt("removeTSInterfaceDeclares", ""),
       Stmt("return", "") >>

ServiceProgram_NoSuperCall ==
    << Stmt("readFile", "service.template.ts"),
       Stmt("interpolate", "mapping"),
       Stmt("removeTSClassDeclares", ""),
       Stmt("addImports", "serviceBaseId"),
       Stmt("if", "passwordFields.length"),
       Guarded("getClassDeclarationById", "serviceId"),
       Guarded("addInjectableDependency", "passwordService"),
       Guarded("markAsync", "PASSWORD_FIELD_ASYNC_METHODS"),
       Guarded("addImports", "PASSWORD_SERVICE_ID"),
       Stmt("removeTSIgnoreComments", ""),
       Stmt("removeESLintComments", ""),
       Stmt("removeTSVariableDeclares", ""),
       Stmt("removeTSInterfaceDeclares", ""),
       Stmt("return", "") >>

ServiceProgram ==
    << Stmt("readFile", "service.template.ts"),
       Stmt("interpolate", "mapping"),
       Stmt("removeTSClassDeclares", ""),
       Stmt("addImports", "serviceBaseId"),
       Stmt("if", "passwordFields.length"),
       Guarded("getClassDeclarationById", "serviceId"),
       Guarded("addInjectableDependency", "passwordService"),
       Guarded("addIdentifierToConstructorSuperCall", "passwordService"),
       Guarded("markAsync", "PASSWORD_FIELD_ASYNC_METHODS"),
       Guarded("addImports", "PASSWORD_SERVICE_ID"),
       Stmt("removeTSIgnoreComments", ""),
       Stmt("removeESLintComments", ""),
       Stmt("removeTSVariableDeclares", ""),
       Stmt("removeTSInterfaceDeclares", ""),
       Stmt("return", "") >>

ServiceBaseProgram ==
    << Stmt("readFile", "service.base.template.ts"),
       Stmt("interpolate", "mapping"),
       Stmt("removeTSClassDeclares", ""),
       Stmt("if", "passwordFields.length"),
       Guarded("getClassDeclarationById", "serviceBaseId"),
       Guarded("addInjectableDependency", "passwordService"),
       Guarded("markAsync", "PASSWORD_FIELD_ASYNC_METHODS"),
       Guarded("addImports", "PASSWORD_SERVICE_ID"),
       Guarded("addImports", "TRANSFORM_STRING_FIELD_UPDATE_INPUT_ID"),
       Stmt("removeTSIgnoreComments", ""),
       Stmt("removeESLintComments", ""),
       Stmt("removeTSVariableDeclares", ""),
       Stmt("removeTSInterfaceDeclares", ""),
       Stmt("return", "") >>

Functions == {"createServiceModule", "createServiceBaseModule"}

Program(fn) ==
    IF fn = "createServiceModule" THEN ServiceProgram ELSE ServiceBaseProgram

\* the conditions of the two `if (passwordFields.length)` statements
ServiceHasPasswordFields_Always(fields) == TRUE
ServiceHasPasswordFields(fields) == Len(fields) # 0
ServiceBaseHasPasswordFields_MoreThanOne(fields) == Len(fields) > 1
ServiceBaseHasPasswordFields(fields) == Len(fields) # 0

HasPasswordFields(fn, fields) ==
    IF fn = "createServiceModule" THEN ServiceHasPasswordFields(fields)
    ELSE ServiceBaseHasPasswordFields(fields)

\* modulePath of createServiceModule, moduleBasePath of createServiceBaseModule
ModulePathOf(fn, entityName) ==
    IF fn = "createServiceModule" THEN ServiceModulePath(entityName)
    ELSE ServiceBaseModulePath(entityName)

\* the class identifier each function looks its class declaration up by
ClassIdOf(fn, entityType) ==
    IF fn = "createServiceModule" THEN createServiceId(entityType)
    ELSE createServiceBaseId(entityType)

\* the import declaration an addImports statement appends
ImportOf(fn, arg, e) ==
    CASE arg = "serviceBaseId" ->
            importNames(<<createServiceBaseId(e.type)>>,
                        relativeImportPath(ServiceModulePath(e.name),
                                           ServiceBaseModulePath(e.name)))
      [] arg = "PASSWORD_SERVICE_ID" ->
            importNames(<<PASSWORD_SERVICE_ID>>,
                        relativeImportPath(ModulePathOf(fn, e.name),
                                           PASSWORD_SERVICE_MODULE_PATH))
      [] arg = "TRANSFORM_STRING_FIELD_UPDATE_INPUT_ID" ->
            importNames(<<TRANSFORM_STRING_FIELD_UPDATE_INPUT_ID>>,
                        relativeImportPath(ModulePathOf(fn, e.name),
                                           PRISMA_UTIL_MODULE_PATH))

(***************************************************************************)
(* Inputs.                                                                 *)
(***************************************************************************)
FieldNames == {"name", "password", "secret"}
DataTypes == {"SingleLineText", "Password"}
Fields == [name : FieldNames, dataType : DataTypes]

\* field lists of at most n fields with unique names
RECURSIVE FieldLists(_)
FieldLists(n) ==
    IF n = 0 THEN {<<>>}
    ELSE LET shorter == FieldLists(n - 1)
         IN  shorter \cup
             UNION {{Append(l, f) :
                        f \in {g \in Fields : \A i \in DOMAIN l : l[i].name # g.name}} :
                    l \in shorter}

EntityNames == {[name |-> "customer", type |-> "Customer"]}

Entities ==
    {[name |-> n.name, type |-> n.type, fields |-> l] :
        n \in EntityNames, l \in FieldLists(MaxFields)}

NoNode == [type |-> "None"]
NoEntity == [name |-> "", type |-> "", fields |-> <<>>]
NoSteps == [fn \in Functions |-> <<>>]

(***************************************************************************)
(* createServiceModules and the two functions it awaits, step by step.     *)
(***************************************************************************)
Init ==
    /\ pc = [fn |-> "createServiceModules", at |-> 1]
    /\ entity \in Entities
    /\ passwordFields = <<>>
    /\ mapping = NoNode
    /\ file = NoNode
    /\ templates = [fn \in Functions |-> NoNode]
    /\ steps = NoSteps
    /\ modules = <<>>
    /\ generated = {}
    /\ evalArgs = NoNode
    /\ evalOut = <<>>

Idle == UNCHANGED <<generated, evalArgs, evalOut>>

\* lines 43-80: the identifiers, the password fields and the mapping
CreateServiceModules ==
    /\ pc.fn = "createServiceModules"
    /\ passwordFields' = Filter(entity.fields, isPasswordField)
    /\ mapping' = BuildMapping(entity.name, entity.type, passwordFields')
    /\ pc' = [fn |-> "createServiceModule", at |-> 1]
    /\ UNCHANGED <<entity, file, templates, steps, modules>>
    /\ Idle

InFunction == pc.fn \in Functions
Current == Program(pc.fn)[pc.at]
At(op) == InFunction /\ Current.op = op

Advance ==
    /\ pc' = [pc EXCEPT !.at = @ + 1]
    /\ steps' = [steps EXCEPT ![pc.fn] = Append(@, Current)]
    /\ UNCHANGED <<entity, passwordFields, mapping, modules>>
    /\ Idle

\* a statement that works on the tree read before
Step == Advance /\ UNCHANGED templates

ReadFile ==
    /\ At("readFile")
    /\ IF pc.fn = "createServiceModule"
       THEN \E keep \in MemberChoices(ServiceMemberPool) : file' = ServiceTemplate(keep)
       ELSE \E keep \in MemberChoices(ServiceBaseMemberPool) :
                file' = ServiceBaseTemplate(keep)
    /\ templates' = [templates EXCEPT ![pc.fn] = file']
    /\ Advance

Interpolate ==
    /\ At("interpolate")
    /\ file' = interpolate(file, mapping)
    /\ Step

RemoveTSClassDeclares ==
    /\ At("removeTSClassDeclares")
    /\ file' = removeTSClassDeclares(file)
    /\ Step

AddImports ==
    /\ At("addImports")
    /\ file' = addImports(file, <<ImportOf(pc.fn, Current.arg, entity)>>)
    /\ Step

\* the index of the first statement after the if block
AfterBlock(prog) ==
    CHOOSE i \in DOMAIN prog :
        /\ i > pc.at
        /\ ~prog[i].guarded
        /\ \A j \in (pc.at + 1)..(i - 1) : prog[j].guarded

IfPasswordFields ==
    /\ At("if")
    /\ pc' = [pc EXCEPT !.at = IF HasPasswordFields(pc.fn, passwordFields)
                               THEN @ + 1
                               ELSE AfterBlock(Program(pc.fn))]
    /\ steps' = [steps EXCEPT ![pc.fn] = Append(@, Current)]
    /\ UNCHANGED <<entity, passwordFields, mapping, file, templates, modules>>
    /\ Idle

GetClassDeclarationById ==
    /\ At("getClassDeclarationById")
    /\ getClassDeclarationById(file, ClassIdOf(pc.fn, entity.type))
    /\ UNCHANGED file
    /\ Step

AddInjectableDependency ==
    /\ At("addInjectableDependency")
    /\ file' = addInjectableDependency(file, PASSWORD_SERVICE_MEMBER_ID.name,
                                       PASSWORD_SERVICE_ID, "protected")
    /\ Step

AddIdentifierToConstructorSuperCall ==
    /\ At("addIdentifierToConstructorSuperCall")
    /\ file' = addIdentifierToConstructorSuperCall(file, PASSWORD_SERVICE_MEMBER_ID)
    /\ Step

MarkAsync ==
    /\ At("markAsync")
    /\ file' = MarkAsyncMethods(file)
    /\ Step

RemoveTSIgnoreComments ==
    /\ At("removeTSIgnoreComments")
    /\ file' = removeTSIgnoreComments(file)
    /\ Step

RemoveESLintComments ==
    /\ At("removeESLintComments")
    /\ file' = removeESLintComments(file)
    /\ Step

RemoveTSVariableDeclares ==
    /\ At("removeTSVariableDeclares")
    /\ file' = removeTSVariableDeclares(file)
    /\ Step

RemoveTSInterfaceDeclares ==
    /\ At("removeTSInterfaceDeclares")
    /\ file' = removeTSInterfaceDeclares(file)
    /\ Step

\* return { path, code: print(file).code }
Return ==
    /\ At("return")
    /\ modules' = Append(modules, [path |-> ModulePathOf(pc.fn, entity.name),
                                   code |-> file])
    /\ file' = NoNode
    /\ pc' = IF pc.fn = "createServiceModule"
             THEN [fn |-> "createServiceBaseModule", at |-> 1]
             ELSE [fn |-> "done", at |-> 1]
    /\ steps' = [steps EXCEPT ![pc.fn] = Append(@, Current)]
    /\ UNCHANGED <<entity, passwordFields, mapping, templates>>
    /\ Idle

Next ==
    \/ CreateServiceModules
    \/ ReadFile
    \/ Interpolate
    \/ RemoveTSClassDeclares
    \/ AddImports
    \/ IfPasswordFields
    \/ GetClassDeclarationById
    \/ AddInjectableDependency
    \/ AddIdentifierToConstructorSuperCall
    \/ MarkAsync
    \/ RemoveTSIgnoreComments
    \/ RemoveESLintComments
    \/ RemoveTSVariableDeclares
    \/ RemoveTSInterfaceDeclares
    \/ Return

Spec == Init /\ [][Next]_vars

(***************************************************************************)
(* Observations on a run, used by the properties below.                    *)
(***************************************************************************)
Done == pc.fn = "done"

ModuleIndex(fn) == IF fn = "createServiceModule" THEN 1 ELSE 2
Returned(fn) == Len(modules) >= ModuleIndex(fn)
CodeOf(fn) == modules[ModuleIndex(fn)].code

Executed(fn, op) == \E i \in DOMAIN steps[fn] : steps[fn][i].op = op
\* the function entered the block of its if statement
TookPasswordBranch(fn) == \E i \in DOMAIN steps[fn] : steps[fn][i].guarded

SensitiveFieldNames ==
    {entity.fields[i].name : i \in {j \in DOMAIN entity.fields :
                                       entity.fields[j].dataType = "Password"}}
HasSensitiveField == SensitiveFieldNames # {}

\* the names of the members whose async flag the function changed
MarkedNames(fn) ==
    LET before == templates[fn].class.body
        after == CodeOf(fn).class.body
    IN  {after[i].key : i \in {j \in DOMAIN after : after[j].async # before[j].async}}

\* the template's own class methods keyed by the identifier create or update
OwnMutationMethods(fn) ==
    LET body == templates[fn].class.body
    IN  {i \in DOMAIN body : /\ body[i].type = "ClassMethod"
                             /\ body[i].keyType = "Identifier"
                             /\ body[i].key \in {"create", "update"}}

OwnMutationMethodNames(fn) ==
    {templates[fn].class.body[i].key : i \in OwnMutationMethods(fn)}

\* interpolation followed by the removal of every scaffold construct, nothing else
InterpolatedAndStripped(fn) ==
    LET t == templates[fn]
        m == mapping
        Sub(n) == IF n.type = "Identifier" /\ n.name \in DOMAIN m THEN m[n.name] ELSE n
        SubCall(c) ==
            IF c.type = "CallExpression"
            THEN [c EXCEPT !.callee = IF @.type = "MemberExpression"
                                      THEN [@ EXCEPT !.object =
                                              IF @.type = "MemberExpression"
                                              THEN [@ EXCEPT !.property = Sub(@)]
                                              ELSE @]
                                      ELSE @,
                           !.arguments = [i \in DOMAIN @ |-> Sub(@[i])]]
            ELSE Sub(c)
    IN  [type |-> "File",
         imports |-> t.imports,
         scaffold |-> {},
         class |-> [id |-> Sub(t.class.id),
                    superClass |-> Sub(t.class.superClass),
                    body |-> [i \in DOMAIN t.class.body |->
                                [t.class.body[i] EXCEPT !.body = SubCall(@)]]]]

ServiceBaseImport ==
    [type |-> "ImportDeclaration",
     specifiers |-> <<entity.type \o "ServiceBase">>,
     source |-> <<".", "base", entity.name \o ".service.base">>]

(***************************************************************************)
(* C1.  As claimed: the two artifacts agree on the sensitive-field         *)
(* decision, and the set of method names whose async flag the mutators set *)
(* is the same in the concrete artifact as in the base artifact.           *)
(***************************************************************************)
\* C1 as claimed
C1_SameDecisionSameMarkedSet ==
    Done =>
        /\ TookPasswordBranch("createServiceModule")
              = TookPasswordBranch("createServiceBaseModule")
        /\ MarkedNames("createServiceModule") = MarkedNames("createServiceBaseModule")

\* C1 as amended: the two artifacts agree on the sensitive-field decision, and
\* in each artifact the async flag is set on exactly that artifact's own class
\* methods keyed create or update (none without a sensitive field); the two sets
\* of marked names are equal whenever the two classes declare the same ones.
C1_SameDecisionOwnMarkedSet ==
    Done =>
        /\ TookPasswordBranch("createServiceModule")
              = TookPasswordBranch("createServiceBaseModule")
        /\ TookPasswordBranch("createServiceModule") = HasSensitiveField
        /\ \A fn \in Functions :
              MarkedNames(fn) = IF HasSensitiveField THEN OwnMutationMethodNames(fn) ELSE {}
        /\ OwnMutationMethodNames("createServiceModule")
              = OwnMutationMethodNames("createServiceBaseModule")
           => MarkedNames("createServiceModule") = MarkedNames("createServiceBaseModule")

C1_Witness ==
    /\ Done
    /\ HasSensitiveField
    /\ TookPasswordBranch("createServiceModule")
    /\ TookPasswordBranch("createServiceBaseModule")
    /\ MarkedNames("createServiceModule") = {"create"}
    /\ MarkedNames("createServiceBaseModule") = {"create"}

(***************************************************************************)
(* C2.  As claimed: without a sensitive field each artifact equals its     *)
(* interpolated and stripped template: no import appended, no member       *)
(* injected, no super-call argument added, no async flag changed.          *)
(***************************************************************************)
\* C2 as claimed
C2_NoSensitiveFieldPureInterpolation ==
    (Done /\ ~HasSensitiveField) =>
        \A fn \in Functions : CodeOf(fn) = InterpolatedAndStripped(fn)

\* C2 as amended: without a sensitive field the base artifact equals its
\* interpolated and stripped template, and the concrete artifact equals its own
\* but for one appended import, that of the base service class.
C2_NoSensitiveFieldOnlyBaseImport ==
    (Done /\ ~HasSensitiveField) =>
        /\ CodeOf("createServiceBaseModule")
              = InterpolatedAndStripped("createServiceBaseModule")
        /\ CodeOf("createServiceModule")
              = [InterpolatedAndStripped("createServiceModule")
                    EXCEPT !.imports = Append(@, ServiceBaseImport)]

C2_Witness ==
    /\ Done
    /\ ~HasSensitiveField
    /\ Len(entity.fields) = 2
    /\ OwnMutationMethodNames("createServiceModule") = {"create"}
    /\ OwnMutationMethodNames("createServiceBaseModule") = {"create", "update"}

(***************************************************************************)
(* C3.  With sensitive fields f1..fn, CREATE_ARGS_MAPPING is an object     *)
(* whose first property spreads args and whose data property is an object *)
(* that first spreads args.data and then holds exactly one override per fi,*)
(* `await this.passwordService.hash(args.data.fi)`; so the last occurrence *)
(* of every key fi in the data object is the hashed override.              *)
(***************************************************************************)
MappingBuilt == pc.fn # "createServiceModules" /\ mapping # NoNode

SensitiveFieldSeq ==
    SelectIdx(entity.fields,
              {j \in DOMAIN entity.fields : entity.fields[j].dataType = "Password"}, 1)

ArgsData ==
    [type |-> "MemberExpression",
     object |-> [type |-> "Identifier", name |-> "args"],
     property |-> [type |-> "Identifier", name |-> "data"]]

ArgsDataOf(f) ==
    [type |-> "MemberExpression", object |-> ArgsData,
     property |-> [type |-> "Identifier", name |-> f]]

ThisPasswordServiceHash ==
    [type |-> "MemberExpression",
     object |-> [type |-> "MemberExpression",
                 object |-> [type |-> "ThisExpression"],
                 property |-> [type |-> "Identifier", name |-> "passwordService"]],
     property |-> [type |-> "Identifier", name |-> "hash"]]

HashedOverride(f) ==
    [type |-> "ObjectProperty",
     key |-> [type |-> "Identifier", name |-> f],
     value |-> [type |-> "AwaitExpression",
                argument |-> [type |-> "CallExpression",
                              callee |-> ThisPasswordServiceHash,
                              arguments |-> <<ArgsDataOf(f)>>]]]

\* the data object of a mutation mapping
DataObject(m) == m.properties[2].value

\* whether property p of an object may write key f: an own key f, or a spread
WritesKey(p, f) ==
    \/ p.type = "SpreadProperty"
    \/ p.type = "ObjectProperty" /\ p.key.name = f

LastWriter(obj, f) ==
    LET writers == {i \in DOMAIN obj.properties : WritesKey(obj.properties[i], f)}
    IN  obj.properties[CHOOSE i \in writers : \A j \in writers : j <= i]

SpreadThenData(m) ==
    /\ m.type = "ObjectExpression"
    /\ Len(m.properties) = 2
    /\ m.properties[1] = [type |-> "SpreadProperty",
                          argument |-> [type |-> "Identifier", name |-> "args"]]
    /\ m.properties[2].type = "ObjectProperty"
    /\ m.properties[2].key = [type |-> "Identifier", name |-> "data"]
    /\ DataObject(m).type = "ObjectExpression"
    /\ DataObject(m).properties[1] = [type |-> "SpreadProperty", argument |-> ArgsData]

\* C3: with sensitive fields, CREATE_ARGS_MAPPING spreads args, then in data
\* spreads args.data and then overrides every sensitive field with its hash, so
\* the last writer of every sensitive key is the hashed override.
C3_CreateMappingOverrideWins ==
    (MappingBuilt /\ HasSensitiveField) =>
        LET m == mapping.CREATE_ARGS_MAPPING
            fs == SensitiveFieldSeq
        IN  /\ SpreadThenData(m)
            /\ Len(DataObject(m).properties) = 1 + Len(fs)
            /\ \A i \in DOMAIN fs :
                  /\ DataObject(m).properties[i + 1] = HashedOverride(fs[i].name)
                  /\ LastWriter(DataObject(m), fs[i].name) = HashedOverride(fs[i].name)

C3_Witness ==
    /\ MappingBuilt
    /\ Len(entity.fields) = 2
    /\ entity.fields[1].dataType = "Password"
    /\ entity.fields[2].dataType = "Password"
    /\ Len(DataObject(mapping.CREATE_ARGS_MAPPING).properties) = 3

(***************************************************************************)
(* C5.  As claimed: in each function every scaffold-stripping step runs    *)
(* after every structural mutator step.                                    *)
(***************************************************************************)
StrippingOps == {"removeTSClassDeclares", "removeTSIgnoreComments", "removeESLintComments",
                 "removeTSVariableDeclares", "removeTSInterfaceDeclares"}
MutatorOps == {"addImports", "addInjectableDependency",
               "addIdentifierToConstructorSuperCall", "markAsync"}

\* in the function's run so far, every step of `later` follows every step of `earlier`
Follows(fn, later, earlier) ==
    \A i, j \in DOMAIN steps[fn] :
        (steps[fn][i].op \in later /\ steps[fn][j].op \in earlier) => j < i

\* C5 as claimed
C5_StrippingAfterMutators ==
    \A fn \in Functions : Follows(fn, StrippingOps, MutatorOps)

\* C5 as amended: removeTSIgnoreComments, removeESLintComments,
\* removeTSVariableDeclares and removeTSInterfaceDeclares run after every
\* structural mutator step, and once the function returns all four have run;
\* removeTSClassDeclares runs right after interpolation, before every mutator step.
C5_LateStrippingAfterMutators ==
    \A fn \in Functions :
        /\ Follows(fn, StrippingOps \ {"removeTSClassDeclares"}, MutatorOps)
        /\ Follows(fn, MutatorOps, {"removeTSClassDeclares"})
        /\ Follows(fn, {"removeTSClassDeclares"}, {"interpolate"})
        /\ Returned(fn) => \A op \in StrippingOps : Executed(fn, op)

C5_Witness ==
    /\ Done
    /\ \A fn \in Functions : \A op \in MutatorOps \ {"addIdentifierToConstructorSuperCall"} :
          Executed(fn, op)
    /\ Executed("createServiceModule", "addIdentifierToConstructorSuperCall")

(***************************************************************************)
(* C7.  As claimed: with a sensitive field and a target class that has no  *)
(* method create, or none update, synthesis fails and returns no artifact  *)
(* for that template.                                                      *)
(***************************************************************************)
TemplateRead(fn) == templates[fn] # NoNode
LacksMutationMethod(fn) == OwnMutationMethodNames(fn) # {"create", "update"}

\* C7 as claimed
C7_MissingMethodFails ==
    \A fn \in Functions :
        (HasSensitiveField /\ TemplateRead(fn) /\ LacksMutationMethod(fn)) => ~Returned(fn)

\* C7 as amended: with a sensitive field and a target class that has no method
\* create, or none update, the loop marks the methods that are there and skips
\* the missing ones silently: the artifact is returned, its members are the
\* template's, and async is set on exactly its own create/update methods.
C7_MissingMethodSkipped ==
    \A fn \in Functions :
        (HasSensitiveField /\ Returned(fn) /\ LacksMutationMethod(fn)) =>
            LET before == templates[fn].class.body
                after == CodeOf(fn).class.body
            IN  /\ Executed(fn, "markAsync")
                /\ Len(after) = Len(before)
                /\ \A i \in DOMAIN after :
                      /\ after[i].key = before[i].key
                      /\ after[i].async = (before[i].async \/ i \in OwnMutationMethods(fn))

C7_Witness ==
    /\ Done
    /\ HasSensitiveField
    /\ OwnMutationMethodNames("createServiceModule") = {}
    /\ OwnMutationMethodNames("createServiceBaseModule") = {"create"}
    /\ Len(modules) = 2

(***************************************************************************)
(* C8.  Every returned artifact is consistent whichever branch fired:      *)
(* (i) every await the mappings brought in lies in a method whose async    *)
(* flag is set, (ii) this.passwordService is referenced only where the     *)
(* class has the injected passwordService member and the file imports      *)
(* PasswordService, (iii) transformStringFieldUpdateInput is referenced    *)
(* only where it is imported; without a sensitive field none of these      *)
(* references or awaits is brought in.                                     *)
(***************************************************************************)
\* the nodes of a tree, the bodies of nested functions left out of `awaiting`
RECURSIVE HasNode(_, _, _)
HasNode(node, Test(_), intoFunctions) ==
    \/ Test(node)
    \/ CASE node.type = "MemberExpression" ->
                \/ HasNode(node.object, Test, intoFunctions)
                \/ HasNode(node.property, Test, intoFunctions)
         [] node.type = "CallExpression" ->
                \/ HasNode(node.callee, Test, intoFunctions)
                \/ \E i \in DOMAIN node.arguments :
                      HasNode(node.arguments[i], Test, intoFunctions)
         [] node.type = "AwaitExpression" -> HasNode(node.argument, Test, intoFunctions)
         [] node.type = "SpreadProperty" -> HasNode(node.argument, Test, intoFunctions)
         [] node.type = "LogicalExpression" ->
                \/ HasNode(node.left, Test, intoFunctions)
                \/ HasNode(node.right, Test, intoFunctions)
         [] node.type = "ObjectExpression" ->
                \E i \in DOMAIN node.properties :
                    HasNode(node.properties[i], Test, intoFunctions)
         [] node.type = "ObjectProperty" -> HasNode(node.value, Test, intoFunctions)
         [] node.type = "ArrowFunctionExpression" ->
                intoFunctions /\ HasNode(node.body, Test, intoFunctions)
         [] OTHER -> FALSE

IsAwait(node) == node.type = "AwaitExpression"
IsThisPasswordService(node) ==
    /\ node.type = "MemberExpression"
    /\ node.object.type = "ThisExpression"
    /\ node.property = [type |-> "Identifier", name |-> "passwordService"]
IsTransformHelper(node) ==
    node = [type |-> "Identifier", name |-> "transformStringFieldUpdateInput"]

Awaits(member) == HasNode(member.body, IsAwait, FALSE)
UsesPasswordService(member) == HasNode(member.body, IsThisPasswordService, TRUE)
UsesTransformHelper(member) == HasNode(member.body, IsTransformHelper, TRUE)

HasPasswordServiceMember(code) ==
    \E i \in DOMAIN code.class.body :
        /\ code.class.body[i].kind = "constructor"
        /\ \E k \in DOMAIN code.class.body[i].params :
              /\ code.class.body[i].params[k].name = "passwordService"
              /\ code.class.body[i].params[k].typeName = "PasswordService"

Imports(code, name) ==
    \E i \in DOMAIN code.imports : name \in Range(code.imports[i].specifiers)

C9_MarkAsyncFrame ==
    [][MarkAsync =>
        LET before == file.class.body
            after == file'.class.body
        IN  /\ Len(after) = Len(before)
            /\ \A i \in DOMAIN before :
                  IF /\ before[i].type = "ClassMethod"
                     /\ before[i].keyType = "Identifier"
                     /\ before[i].key \in {"create", "update"}
                  THEN after[i] = [before[i] EXCEPT !.async = TRUE]
                  ELSE after[i] = before[i]
            /\ file'.imports = file.imports
            /\ file'.scaffold = file.scaffold
            /\ file'.class.id = file.class.id
            /\ file'.class.superClass = file.class.superClass]_vars

\* just after the loop: create and update are async, the constructor, a find
\* method and a delete method already async are as the template declared them
C9_Witness ==
    /\ pc.fn = "createServiceBaseModule"
    /\ steps[pc.fn] # <<>>
    /\ steps[pc.fn][Len(steps[pc.fn])].op = "markAsync"
    /\ \E i, j, k \in DOMAIN file.class.body :
          /\ file.class.body[i].key = "create" /\ file.class.body[i].async
          /\ ~templates[pc.fn].class.body[i].async
          /\ file.class.body[j].key = "findMany" /\ ~file.class.body[j].async
          /\ file.class.body[k].key = "constructor" /\ ~file.class.body[k].async

(***************************************************************************)
(* C10.  With a sensitive field both artifacts get the protected           *)
(* passwordService member and an import of PasswordService relative to     *)
(* their own path; passwordService is appended to the super call in the    *)
(* concrete artifact only, and transformStringFieldUpdateInput is imported *)
(* in the base artifact only.                                              *)
(***************************************************************************)
ConstructorOf(code) ==
    code.class.body[CHOOSE i \in DOMAIN code.class.body :
                        code.class.body[i].kind = "constructor"]

ProtectedPasswordService ==
    [type |-> "TSParameterProperty", name |-> "passwordService",
     typeName |-> "PasswordService", accessibility |-> "protected"]

ImportsFrom(code, name, source) ==
    \E i \in DOMAIN code.imports :
        /\ code.imports[i].specifiers = <<name>>
        /\ code.imports[i].source = source

\* C10: with a sensitive field, member and PasswordService import in both
\* artifacts, super-call argument in the concrete one only, helper import in
\* the base one only.
C10_SharedAndExclusiveSteps ==
    (Done /\ HasSensitiveField) =>
        LET service == CodeOf("createServiceModule")
            base == CodeOf("createServiceBaseModule")
            PasswordServiceArg(c) ==
                /\ c.body.type = "CallExpression"
                /\ \E i \in DOMAIN c.body.arguments :
                      c.body.arguments[i] = [type |-> "Identifier", name |-> "passwordService"]
        IN  /\ \A code \in {service, base} :
                  \E k \in DOMAIN ConstructorOf(code).params :
                      ConstructorOf(code).params[k] = ProtectedPasswordService
            /\ ImportsFrom(service, "PasswordService", <<"..", "auth", "password.service">>)
            /\ ImportsFrom(base, "PasswordService", <<"..", "..", "auth", "password.service">>)
            /\ ConstructorOf(service).body.arguments
                  = <<[type |-> "Identifier", name |-> "prisma"],
                      [type |-> "Identifier", name |-> "passwordService"]>>
            /\ ~PasswordServiceArg(ConstructorOf(base))
            /\ ImportsFrom(base, "transformStringFieldUpdateInput", <<"..", "..", "prisma.util">>)
            /\ ~Imports(service, "transformStringFieldUpdateInput")

C10_Witness ==
    /\ Done
    /\ HasSensitiveField
    /\ Len(CodeOf("createServiceModule").imports) = 3
    /\ Len(CodeOf("createServiceBaseModule").imports) = 3

(***************************************************************************)
(* Identifier naming over a generation run: createServiceModules is called *)
(* once per entity and derives the entity's seven names one after another  *)
(* (lines 43-44 and 52-56).                                                *)
(***************************************************************************)
EntityTypes == {"Customer", "Order", "FindManyOrder", "OrderCreate", "Tag"}

NameOrder == <<"SERVICE", "SERVICE_BASE", "FIND_MANY_ARGS", "FIND_ONE_ARGS",
               "CREATE_ARGS", "UPDATE_ARGS", "DELETE_ARGS">>

GeneratedTypes == {g.entityType : g \in generated}

NamingInit ==
    /\ pc = [fn |-> "idle", at |-> 1]
    /\ entity = NoEntity
    /\ passwordFields = <<>>
    /\ mapping = NoNode
    /\ file = NoNode
    /\ templates = [fn \in Functions |-> NoNode]
    /\ steps = NoSteps
    /\ modules = <<>>
    /\ generated = {}
    /\ evalArgs = NoNode
    /\ evalOut = <<>>

NamingFrame ==
    UNCHANGED <<passwordFields, mapping, file, templates, steps, modules, evalArgs, evalOut>>

\* the next entity of the run is handed to createServiceModules
NextEntity ==
    /\ pc.fn = "idle"
    /\ Cardinality(GeneratedTypes) < MaxEntities
    /\ \E t \in EntityTypes \ GeneratedTypes :
          entity' = [name |-> "", type |-> t, fields |-> <<>>]
    /\ pc' = [fn |-> "naming", at |-> 1]
    /\ UNCHANGED generated
    /\ NamingFrame

\* one of the seven identifiers is derived from entityType
DeriveName ==
    /\ pc.fn = "naming"
    /\ generated' = generated \cup
          {[entityType |-> entity.type, kind |-> NameOrder[pc.at],
            name |-> DerivedName(entity.type, NameOrder[pc.at]).name]}
    /\ pc' = IF pc.at = Len(NameOrder) THEN [fn |-> "idle", at |-> 1]
             ELSE [pc EXCEPT !.at = @ + 1]
    /\ UNCHANGED entity
    /\ NamingFrame

NamingNext == NextEntity \/ DeriveName

SpecNaming == NamingInit /\ [][NamingNext]_vars

(***************************************************************************)
(* C6.  As claimed: each derived name is a function of the entity type     *)
(* alone, and any two derived names of different (type, kind) differ.      *)
(***************************************************************************)
\* C6 as claimed
C6_NamesCollisionFree ==
    \A g, h \in generated :
        (g.entityType # h.entityType \/ g.kind # h.kind) => g.name # h.name

\* C6 as amended: each derived name is a function of the entity type alone; the
\* seven names of one entity type differ from each other, and the names of one
\* kind differ between different entity types.  Names of different kinds of
\* different entity types can coincide.
C6_NamesCollisionFreePerTypeAndKind ==
    \A g, h \in generated :
        /\ (g.entityType = h.entityType /\ g.kind = h.kind) => g.name = h.name
        /\ (g.entityType = h.entityType /\ g.kind # h.kind) => g.name # h.name
        /\ (g.entityType # h.entityType /\ g.kind = h.kind) => g.name # h.name

C6_Witness ==
    /\ pc.fn = "idle"
    /\ GeneratedTypes = {"FindManyOrder", "OrderCreate"}
    /\ Cardinality(generated) = 14
    /\ \E g, h \in generated :
          g.entityType # h.entityType /\ g.kind # h.kind /\ g.name = h.name

(***************************************************************************)
(* The generated update method at run time: UPDATE_ARGS_MAPPING is         *)
(* evaluated on the method's args.  A JavaScript value is one of the       *)
(* strings below; only a non-empty string value is truthy.                 *)
(***************************************************************************)
JSValues == {"undefined", "null", "", "s3cret"}
IsTruthy(v) == v \notin {"undefined", "null", ""}
IsString(v) == v \notin {"undefined", "null"}

\* args.data objects: a value per field name, "undefined" for an omitted one
DataObjects == [FieldNames -> JSValues]

Outcome(value, calls) == [value |-> value, calls |-> calls]

\* the value of an expression of an override on args, and the calls it makes;
\* transformStringFieldUpdateInput hands a string on to its transform callback
RECURSIVE Evaluate(_, _)
Evaluate(node, args) ==
    CASE node.type = "MemberExpression" ->
            Outcome(args.data[node.property.name], <<>>)
      [] node.type = "AwaitExpression" -> Evaluate(node.argument, args)
      [] node.type = "LogicalExpression" ->
            LET left == Evaluate(node.left, args)
            IN  IF IsTruthy(left.value)
                THEN LET right == Evaluate(node.right, args)
                     IN  Outcome(right.value, left.calls \o right.calls)
                ELSE left
      [] node.type = "CallExpression" ->
            LET input == Evaluate(node.arguments[1], args)
                call == [callee |-> node.callee, argument |-> input.value]
                hash == [callee |-> HASH_MEMBER_EXPRESSION, argument |-> input.value]
            IN  IF node.callee = TRANSFORM_STRING_FIELD_UPDATE_INPUT_ID
                THEN IF IsString(input.value)
                     THEN Outcome("hash(" \o input.value \o ")",
                                  input.calls \o <<call, hash>>)
                     ELSE Outcome(input.value, input.calls \o <<call>>)
                ELSE Outcome("hash(" \o input.value \o ")", input.calls \o <<call>>)

\* the outcome of every override of the mapping's data object, by key
EvaluateOverrides(m, args) ==
    IF m.type # "ObjectExpression" THEN <<>>
    ELSE LET props == DataObject(m).properties
         IN  [i \in 1..(Len(props) - 1) |->
                [key |-> props[i + 1].key.name,
                 outcome |-> Evaluate(props[i + 1].value, args)]]

EvalInit ==
    /\ pc = [fn |-> "createServiceModules", at |-> 1]
    /\ entity \in Entities
    /\ passwordFields = <<>>
    /\ mapping = NoNode
    /\ file = NoNode
    /\ templates = [fn \in Functions |-> NoNode]
    /\ steps = NoSteps
    /\ modules = <<>>
    /\ generated = {}
    /\ evalArgs = NoNode
    /\ evalOut = <<>>

\* the generated update method is called with args
CallUpdate ==
    /\ pc.fn = "createServiceModule"
    /\ evalArgs = NoNode
    /\ \E data \in DataObjects : evalArgs' = [type |-> "Args", data |-> data]
    /\ evalOut' = EvaluateOverrides(mapping.UPDATE_ARGS_MAPPING, evalArgs')
    /\ pc' = [fn |-> "update", at |-> 1]
    /\ UNCHANGED <<entity, passwordFields, mapping, file, templates, steps, modules,
                   generated>>

EvalNext == CreateServiceModules \/ CallUpdate

SpecEval == EvalInit /\ [][EvalNext]_vars

(***************************************************************************)
(* C4.  For every sensitive field f the UPDATE_ARGS_MAPPING override is    *)
(* `args.data.f && await transformStringFieldUpdateInput(args.data.f,      *)
(* password => this.passwordService.hash(password))`; on update arguments  *)
(* that omit f (or give a falsy f) it yields that original value and       *)
(* calls neither the helper nor hash; on a truthy f the helper is called   *)
(* exactly once, with that value.                                          *)
(***************************************************************************)
GuardedTransform(f) ==
    [type |-> "ObjectProperty",
     key |-> [type |-> "Identifier", name |-> f],
     value |->
       [type |-> "LogicalExpression", operator |-> "&&",
        left |-> ArgsDataOf(f),
        right |->
          [type |-> "AwaitExpression",
           argument |->
             [type |-> "CallExpression",
              callee |-> [type |-> "Identifier", name |-> "transformStringFieldUpdateInput"],
              arguments |->
                << ArgsDataOf(f),
                   [type |-> "ArrowFunctionExpression",
                    params |-> <<[type |-> "Identifier", name |-> "password"]>>,
                    body |-> [type |-> "CallExpression",
                              callee |-> ThisPasswordServiceHash,
                              arguments |->
                                <<[type |-> "Identifier", name |-> "password"]>>]] >>]]]]

HelperCalls(outcome) ==
    {i \in DOMAIN outcome.calls :
        outcome.calls[i].callee.type = "Identifier"
        /\ outcome.calls[i].callee.name = "transformStringFieldUpdateInput"}

\* C4: every update override is the guarded transform; a falsy or omitted value
\* comes back unchanged with no call made, a truthy one reaches the helper once.
C4_UpdateOverridePartial ==
    (MappingBuilt /\ HasSensitiveField) =>
        LET m == mapping.UPDATE_ARGS_MAPPING
            fs == SensitiveFieldSeq
        IN  /\ SpreadThenData(m)
            /\ Len(DataObject(m).properties) = 1 + Len(fs)
            /\ \A i \in DOMAIN fs :
                  DataObject(m).properties[i + 1] = GuardedTransform(fs[i].name)
            /\ evalArgs # NoNode =>
                  /\ Len(evalOut) = Len(fs)
                  /\ \A i \in DOMAIN fs :
                        LET given == evalArgs.data[fs[i].name]
                            out == evalOut[i].outcome
                        IN  /\ evalOut[i].key = fs[i].name
                            /\ ~IsTruthy(given) => (out.value = given /\ out.calls = <<>>)
                            /\ IsTruthy(given) =>
                                  /\ Cardinality(HelperCalls(out)) = 1
                                  /\ \A c \in HelperCalls(out) :
                                        out.calls[c].argument = given

\* an update that omits one sensitive field and supplies another
C4_Witness ==
    /\ pc.fn = "update"
    /\ Len(evalOut) = 2
    /\ evalArgs.data[evalOut[1].key] = "undefined"
    /\ evalOut[1].outcome = [value |-> "undefined", calls |-> <<>>]
    /\ evalArgs.data[evalOut[2].key] = "s3cret"
    /\ Len(evalOut[2].outcome.calls) = 2

====
